---- MODULE Spec2Model ----
(***************************************************************************)
(* Model of the Proj.4 core shim (src/Projections/Core-x64/Core.cpp).      *)
(*                                                                         *)
(* Every exported function is a one-line forward to a function of the      *)
(* external projection library (proj_api.h).  The shim is modelled by      *)
(*   - one operator per exported function giving the sequence of external  *)
(*     calls its body makes, with the arguments in the positions the body  *)
(*     puts them, and                                                      *)
(*   - one operator per exported function giving the value it returns for  *)
(*     the value the external call returned.                               *)
(* The external library is the environment (Lib* and Transform*            *)
(* definitions): a function of its arguments for live projections, with    *)
(* its treatment of points it cannot transform left open, and any outcome  *)
(* for a handle that is no live projection.                                *)
(***************************************************************************)
EXTENDS Integers, Sequences, FiniteSets, TLC

VARIABLES pc, req, ext, out, ret, heap, mem, data, dangling, scen

vars == <<pc, req, ext, out, ret, heap, mem, data, dangling, scen>>

(* ------------------------------ bounds -------------------------------- *)

\* number of projection handles the library can hand out
MaxHandles == 2
\* length of each of the caller's coordinate arrays x[], y[], z[]
MaxLen == 2
\* largest stride (point_offset) a caller passes
MaxStride == 1

(* ------------------------------ values -------------------------------- *)

\* callers (threads) of the exported functions
Threads == {1, 2}

\* the null pointer / null handle
NULL == 0

\* a handle is an opaque address: NULL or one of the library's objects
Handles == 0..MaxHandles

\* projection definition strings a caller passes
Wkt == {"+proj=latlong", "+proj=merc", "garbage"}

\* what a coordinate variable holds: an input value the projections can
\* transform ("in"), an input value outside their domain ("bad"), the value
\* the library's projection gives for an input ("proj"), or anything else the
\* library stored there (HUGE_VAL, an intermediate result: "huge")
Coord == {"in", "bad", "proj", "huge"}

\* addresses of the caller's coordinates: x[i], y[i], z[i] for i in 1..MaxLen
Xaddr(i) == i
Yaddr(i) == MaxLen + i
Zaddr(i) == 2 * MaxLen + i
Cells == 1..(3 * MaxLen)

\* input data in which every point can be transformed
Origin == [c \in Cells |-> "in"]

\* input data whose point i lies outside the domain
BadAt(i) == [c \in Cells |-> IF c \in {Xaddr(i), Yaddr(i)} THEN "bad" ELSE "in"]

\* the input data a caller loads into its arrays before a call
Inputs == {Origin} \cup {BadAt(i) : i \in 1..MaxLen}

(* ------------------- calls made to the external library --------------- *)

\* one call of a proj_api.h function, arguments by position; a function that
\* takes one handle has it in src, unused arguments are NULL/0/""
ExtCall(fn, wkt, src, dst, count, offset, x, y, z) ==
    [fn |-> fn, wkt |-> wkt, src |-> src, dst |-> dst,
     count |-> count, offset |-> offset, x |-> x, y |-> y, z |-> z]

\* a caller's call of an exported function, arguments by position
\* (a double& parameter is the address of the caller's variable)
Request(op, wkt, src, dst, count, offset, x, y, z) ==
    [op |-> op, wkt |-> wkt, src |-> src, dst |-> dst,
     count |-> count, offset |-> offset, x |-> x, y |-> y, z |-> z]

\* the value of a call that returns nothing
Void == "void"

(* --------------------------- the shim (Core.cpp) ---------------------- *)
(* F(args): the external calls the body of F makes, in order.             *)
(* F_ret(r): what F returns when the external call returned r.            *)

initProjection(wkt) ==
    << ExtCall("pj_init_plus", wkt, NULL, NULL, 0, 0, NULL, NULL, NULL) >>

\* variant: reports whether parsing succeeded instead of the handle
initProjection_ret_flag(r) == IF r # NULL THEN 1 ELSE 0

initProjection_ret(r) == r

isLatLon(hdl) ==
    << ExtCall("pj_is_latlong", "", hdl, NULL, 0, 0, NULL, NULL, NULL) >>

\* variant: only the value 1 counts as true
isLatLon_ret_one(r) == r = 1

isLatLon_ret(r) == IF r # 0 THEN TRUE ELSE FALSE

\* variant: a handle that is not live is not passed on
freeProjection_tracked(hdl) ==
    IF hdl \in 1..MaxHandles /\ heap[hdl] = "live"
    THEN << ExtCall("pj_free", "", hdl, NULL, 0, 0, NULL, NULL, NULL) >>
    ELSE << >>

freeProjection(hdl) ==
    << ExtCall("pj_free", "", hdl, NULL, 0, 0, NULL, NULL, NULL) >>

freeProjection_ret(r) == Void

\* variant: the transform is made a second time
transformPoints_twice(src, dst, point_count, point_offset, x, y, z) ==
    << ExtCall("pj_transform", "", src, dst, point_count, point_offset, x, y, z),
       ExtCall("pj_transform", "", src, dst, point_count, point_offset, x, y, z) >>

transformPoints(src, dst, point_count, point_offset, x, y, z) ==
    << ExtCall("pj_transform", "", src, dst, point_count, point_offset, x, y, z) >>

\* variant: every error number is reported as 1
transformPoints_ret_mapped(r) == IF r = 0 THEN 0 ELSE 1

transformPoints_ret(r) == r

\* variant: an array is passed for the third axis
transformSimplePoints_yz(src, dst, point_count, point_offset, x, y) ==
    << ExtCall("pj_transform", "", src, dst, point_count, point_offset, x, y, y) >>

transformSimplePoints(src, dst, point_count, point_offset, x, y) ==
    << ExtCall("pj_transform", "", src, dst, point_count, point_offset, x, y, NULL) >>

transformSimplePoints_ret(r) == r

\* variant: no third axis is passed
transformPoint_nullz(src, dst, x, y, z) ==
    << ExtCall("pj_transform", "", src, dst, 1, 0, x, y, NULL) >>

\* variant: count and stride exchanged
transformPoint_count0(src, dst, x, y, z) ==
    << ExtCall("pj_transform", "", src, dst, 0, 1, x, y, z) >>

\* variant: identical projections are not passed to the library
transformPoint_shortcut(src, dst, x, y, z) ==
    IF src = dst THEN << >>
    ELSE << ExtCall("pj_transform", "", src, dst, 1, 0, x, y, z) >>

transformPoint(src, dst, x, y, z) ==
    << ExtCall("pj_transform", "", src, dst, 1, 0, x, y, z) >>

transformPoint_ret(r) == r

transformSimplePoint(src, dst, x, y) ==
    << ExtCall("pj_transform", "", src, dst, 1, 0, x, y, NULL) >>

transformSimplePoint_ret(r) == r

\* the exported function a request names, applied to the request's arguments
Handler(rq) ==
    CASE rq.op = "initProjection" -> initProjection(rq.wkt)
      [] rq.op = "isLatLon" -> isLatLon(rq.src)
      [] rq.op = "freeProjection" -> freeProjection(rq.src)
      [] rq.op = "transformPoints" ->
            transformPoints(rq.src, rq.dst, rq.count, rq.offset, rq.x, rq.y, rq.z)
      [] rq.op = "transformSimplePoints" ->
            transformSimplePoints(rq.src, rq.dst, rq.count, rq.offset, rq.x, rq.y)
      [] rq.op = "transformPoint" -> transformPoint(rq.src, rq.dst, rq.x, rq.y, rq.z)
      [] rq.op = "transformSimplePoint" ->
            transformSimplePoint(rq.src, rq.dst, rq.x, rq.y)
      [] OTHER -> << >>

ShimReturn(rq, r) ==
    CASE rq.op = "initProjection" -> initProjection_ret(r)
      [] rq.op = "isLatLon" -> isLatLon_ret(r)
      [] rq.op = "freeProjection" -> freeProjection_ret(r)
      [] rq.op = "transformPoints" -> transformPoints_ret(r)
      [] rq.op = "transformSimplePoints" -> transformSimplePoints_ret(r)
      [] rq.op = "transformPoint" -> transformPoint_ret(r)
      [] rq.op = "transformSimplePoint" -> transformSimplePoint_ret(r)
      [] OTHER -> Void

TransformOps ==
    {"transformPoints", "transformSimplePoints", "transformPoint", "transformSimplePoint"}

(* ------------------ the external library (environment) ---------------- *)

\* definition strings pj_init_plus can parse
LibAccepts == {"+proj=latlong", "+proj=merc"}

\* values pj_is_latlong may return (an int used as a truth value)
GeoVals == {0, 1, 2}

\* values pj_transform may return: 0 and library-defined error numbers
Status == {0, -14, 2}

Unalloc == {h \in 1..MaxHandles : heap[h] = "unalloc"}

Lowest(S) == CHOOSE h \in S : \A g \in S : h <= g

\* a live handle: returned by pj_init_plus and not freed
Live(h) == h \in 1..MaxHandles /\ heap[h] = "live"

\* an outcome of one library call: r the value returned, m the caller's
\* memory after it
Outcome(r, m) == [r |-> r, m |-> m]

\* the value a successful transform stores: between identical projections the
\* input itself
Projected(c) == IF c.src = c.dst THEN "in" ELSE "proj"

\* the addresses of x[point_offset * i], y[...], z[...] of call c
Xi(c, i) == c.x + c.offset * i
Yi(c, i) == c.y + c.offset * i
Zi(c, i) == c.z + c.offset * i

\* the coordinates of the points I of call c: all axes passed, and x and y
AllCells(c, I) ==
    UNION {{Xi(c, i), Yi(c, i)} \cup (IF c.z = NULL THEN {} ELSE {Zi(c, i)}) : i \in I}
    \cap Cells

XYCells(c, I) == UNION {{Xi(c, i), Yi(c, i)} : i \in I} \cap Cells

\* point i of call c can be transformed
Good(c, m, i) ==
    /\ Xi(c, i) \in Cells /\ Yi(c, i) \in Cells
    /\ m[Xi(c, i)] = "in" /\ m[Yi(c, i)] = "in"

\* memory m with v in the cells W and HUGE_VAL in the cells M
Store(m, W, M, v) ==
    [a \in Cells |-> IF a \in W THEN v ELSE IF a \in M THEN "huge" ELSE m[a]]

\* how the library treats a point it cannot transform is the library's own
\* and may depend on the number of points of the call:
\*   one point:    the error is returned, the point left as it is ("leave")
\*                 or overwritten ("mark");
\*   many points:  the error is returned at once, the points before it
\*                 transformed and the rest untouched ("stop"), or the point
\*                 is set to HUGE_VAL and the others transformed ("skip").
SinglePolicy == {"leave", "mark"}
BatchPolicy == {"stop", "skip"}

\* pj_transform between two live projections
Transform(c, m) ==
    LET pts == 0..(c.count - 1)
        bad == {i \in pts : ~Good(c, m, i)}
    IN IF bad = {}
       THEN Outcome(0, Store(m, AllCells(c, pts), {}, Projected(c)))
       ELSE IF c.count = 1
       THEN IF scen.single = "leave"
            THEN Outcome(-14, m)
            ELSE Outcome(-14, Store(m, {}, XYCells(c, pts), Projected(c)))
       ELSE IF scen.batch = "skip"
            THEN Outcome(0, Store(m, AllCells(c, pts \ bad), XYCells(c, bad),
                                  Projected(c)))
            ELSE Outcome(-14, Store(m, AllCells(c, {i \in pts : \A b \in bad : i < b}),
                                    {}, Projected(c)))

\* pj_transform with a handle that is no live projection: undefined
\* behaviour, any status and the points left or overwritten
TransformUndefined(c, m) ==
    {Outcome(r, n) : r \in Status,
                     n \in {m, Store(m, {}, XYCells(c, 0..(c.count - 1)), "huge")}}

LibOutcomes(c, m) ==
    CASE c.fn = "pj_init_plus" ->
            IF c.wkt \in LibAccepts /\ Unalloc # {}
            THEN {Outcome(Lowest(Unalloc), m)}
            ELSE {Outcome(NULL, m)}
      [] c.fn = "pj_is_latlong" -> {Outcome(r, m) : r \in GeoVals}
      [] c.fn = "pj_free" -> {Outcome(0, m)}
      [] c.fn = "pj_transform" ->
            IF Live(c.src) /\ Live(c.dst)
            THEN {Transform(c, m)}
            ELSE TransformUndefined(c, m)
      [] OTHER -> {}

\* the library's objects after call c returned r
LibHeap(c, r, h) ==
    CASE c.fn = "pj_init_plus" /\ r # NULL -> [h EXCEPT ![r] = "live"]
      [] c.fn = "pj_free" /\ c.src \in 1..MaxHandles /\ h[c.src] = "live" ->
            [h EXCEPT ![c.src] = "freed"]
      [] OTHER -> h

\* call c hands the library a handle that is not a live object of it
Dangling(c, h) ==
    /\ c.fn \in {"pj_is_latlong", "pj_free", "pj_transform"}
    /\ \E g \in {c.src} \cup (IF c.fn = "pj_transform" THEN {c.dst} ELSE {}) :
          g # NULL /\ (g \notin 1..MaxHandles \/ h[g] # "live")

(* ------------------------------ the callers --------------------------- *)

\* count, stride and first element of a call on the caller's arrays: the
\* elements addressed lie inside the arrays, and a stride of 0 is used only
\* with at most one point
Geom ==
    {g \in [count : 0..MaxLen, offset : 0..MaxStride, base : 1..MaxLen] :
        /\ g.count = 0 => g.base = 1
        /\ g.count >= 2 => g.offset >= 1
        /\ g.count >= 1 => g.base + g.offset * (g.count - 1) <= MaxLen}

NoRequest == Request("none", "", NULL, NULL, 0, 0, NULL, NULL, NULL)

\* the external call thread t is inside, or made last
LastCall(t) == ext[t][Len(ext[t])]

\* accepted definitions being parsed by the library right now
PendingInits ==
    {u \in Threads : pc[u] = "inLib" /\ LastCall(u).fn = "pj_init_plus"
                     /\ LastCall(u).wkt \in LibAccepts}

\* variant: a call waits while another thread is inside the library
Call_locked(t, rq) ==
    /\ \A u \in Threads \ {t} : pc[u] # "inLib"
    /\ pc[t] = "idle"
    /\ (rq.op = "initProjection" /\ rq.wkt \in LibAccepts)
          => Cardinality(Unalloc) > Cardinality(PendingInits)
    /\ req' = [req EXCEPT ![t] = rq]
    /\ LET calls == Handler(rq)
       IN IF calls = << >>
          THEN /\ pc' = [pc EXCEPT ![t] = "returned"]
               /\ ext' = [ext EXCEPT ![t] = << >>]
               /\ ret' = [ret EXCEPT ![t] = ShimReturn(rq, 0)]
          ELSE /\ pc' = [pc EXCEPT ![t] = "inLib"]
               /\ ext' = [ext EXCEPT ![t] = << calls[1] >>]
               /\ ret' = ret
    /\ UNCHANGED <<out, heap, mem, data, dangling, scen>>

\* Thread t calls an exported function: the shim makes the first external
\* call of the function's body.  No condition on the other threads or on the
\* handles: Core.cpp has no lock and no check.
Call(t, rq) ==
    /\ pc[t] = "idle"
    /\ (rq.op = "initProjection" /\ rq.wkt \in LibAccepts)
          => Cardinality(Unalloc) > Cardinality(PendingInits)
    /\ req' = [req EXCEPT ![t] = rq]
    /\ LET calls == Handler(rq)
       IN IF calls = << >>
          THEN /\ pc' = [pc EXCEPT ![t] = "returned"]
               /\ ext' = [ext EXCEPT ![t] = << >>]
               /\ ret' = [ret EXCEPT ![t] = ShimReturn(rq, 0)]
          ELSE /\ pc' = [pc EXCEPT ![t] = "inLib"]
               /\ ext' = [ext EXCEPT ![t] = << calls[1] >>]
               /\ ret' = ret
    /\ UNCHANGED <<out, heap, mem, data, dangling, scen>>

InitProjectionRequests ==
    {Request("initProjection", wkt, NULL, NULL, 0, 0, NULL, NULL, NULL) : wkt \in Wkt}

IsLatLonRequests ==
    {Request("isLatLon", "", hdl, NULL, 0, 0, NULL, NULL, NULL) : hdl \in Handles}

FreeProjectionRequests ==
    {Request("freeProjection", "", hdl, NULL, 0, 0, NULL, NULL, NULL) : hdl \in Handles}

TransformPointsRequests ==
    {Request("transformPoints", "", src, dst, g.count, g.offset,
             Xaddr(g.base), Yaddr(g.base), Zaddr(g.base)) :
        src \in Handles, dst \in Handles, g \in Geom}

TransformSimplePointsRequests ==
    {Request("transformSimplePoints", "", src, dst, g.count, g.offset,
             Xaddr(g.base), Yaddr(g.base), NULL) :
        src \in Handles, dst \in Handles, g \in Geom}

\* the caller's variables x, y, z are the elements i of its arrays
TransformPointRequests(I) ==
    {Request("transformPoint", "", src, dst, 0, 0, Xaddr(i), Yaddr(i), Zaddr(i)) :
        src \in Handles, dst \in Handles, i \in I}

TransformSimplePointRequests ==
    {Request("transformSimplePoint", "", src, dst, 0, 0, Xaddr(i), Yaddr(i), NULL) :
        src \in Handles, dst \in Handles, i \in 1..MaxLen}

InitProjection(t) == \E rq \in InitProjectionRequests : Call(t, rq)

IsLatLon(t) == \E rq \in IsLatLonRequests : Call(t, rq)

FreeProjection(t) == \E rq \in FreeProjectionRequests : Call(t, rq)

TransformPoints(t) == \E rq \in TransformPointsRequests : Call(t, rq)

TransformSimplePoints(t) == \E rq \in TransformSimplePointsRequests : Call(t, rq)

TransformPoint(t, I) == \E rq \in TransformPointRequests(I) : Call(t, rq)

TransformSimplePoint(t) == \E rq \in TransformSimplePointRequests : Call(t, rq)

\* The external call thread t is inside returns: the library has acted on
\* its objects and on the caller's arrays; the shim makes the next external
\* call of the function's body, or returns to its caller.
LibReturn(t) ==
    /\ pc[t] = "inLib"
    /\ LET c == LastCall(t)
           calls == Handler(req[t])
       IN \E o \in LibOutcomes(c, mem[t]) :
            /\ out' = [out EXCEPT ![t] = o.r]
            /\ heap' = LibHeap(c, o.r, heap)
            /\ mem' = [mem EXCEPT ![t] = o.m]
            /\ dangling' = [dangling EXCEPT ![t] = dangling[t] \/ Dangling(c, heap)]
            /\ IF Len(ext[t]) < Len(calls)
               THEN /\ ext' = [ext EXCEPT ![t] = Append(ext[t], calls[Len(ext[t]) + 1])]
                    /\ pc' = pc
                    /\ ret' = ret
               ELSE /\ ext' = ext
                    /\ pc' = [pc EXCEPT ![t] = "returned"]
                    /\ ret' = [ret EXCEPT ![t] = ShimReturn(req[t], o.r)]
    /\ UNCHANGED <<req, data, scen>>

\* The caller takes the result of the call that returned and, when reload,
\* loads the next input data, one of D, into its arrays.
Take(t, reload, D) ==
    /\ pc[t] = "returned"
    /\ pc' = [pc EXCEPT ![t] = "idle"]
    /\ req' = [req EXCEPT ![t] = NoRequest]
    /\ ext' = [ext EXCEPT ![t] = << >>]
    /\ out' = [out EXCEPT ![t] = 0]
    /\ ret' = [ret EXCEPT ![t] = Void]
    /\ dangling' = [dangling EXCEPT ![t] = FALSE]
    /\ IF reload
       THEN \E d \in D : /\ mem' = [mem EXCEPT ![t] = d]
                          /\ data' = [data EXCEPT ![t] = d]
       ELSE UNCHANGED <<mem, data>>
    /\ UNCHANGED heap

TakeResult(t, D) == Take(t, TRUE, D) /\ UNCHANGED scen

\* the library's treatment of failing points, and no batch scenario
NoScenarios ==
    {[src |-> NULL, dst |-> NULL, count |-> 0, offset |-> 0, done |-> 0,
      failed |-> FALSE, single |-> sp, batch |-> bp] :
        sp \in SinglePolicy, bp \in BatchPolicy}

Init ==
    /\ pc = [t \in Threads |-> "idle"]
    /\ req = [t \in Threads |-> NoRequest]
    /\ ext = [t \in Threads |-> << >>]
    /\ out = [t \in Threads |-> 0]
    /\ ret = [t \in Threads |-> Void]
    /\ heap = [h \in 1..MaxHandles |-> "unalloc"]
    /\ mem = [t \in Threads |-> Origin]
    /\ data = [t \in Threads |-> Origin]
    /\ dangling = [t \in Threads |-> FALSE]
    /\ scen \in NoScenarios

\* one caller: every call returns before the next is made
Next ==
    \/ InitProjection(1)
    \/ IsLatLon(1)
    \/ FreeProjection(1)
    \/ TransformPoints(1)
    \/ TransformSimplePoints(1)
    \/ TransformPoint(1, 1..MaxLen)
    \/ TransformSimplePoint(1)
    \/ LibReturn(1)
    \/ TakeResult(1, {Origin, BadAt(1)})

Spec == Init /\ [][Next]_vars

(* ------------------------- concurrent callers ------------------------- *)
(* Two threads call the exported functions with no coordination between   *)
(* them; a call is inside the library from Call to LibReturn.             *)

NextConc ==
    \E t \in Threads :
        \/ InitProjection(t)
        \/ IsLatLon(t)
        \/ FreeProjection(t)
        \/ TransformPoint(t, {1})
        \/ LibReturn(t)
        \/ TakeResult(t, {Origin})

InitConc == Init /\ scen.single = "leave" /\ scen.batch = "stop"

SpecConc == InitConc /\ [][NextConc]_vars

(* ------------------ one batch against N single calls ------------------ *)
(* Caller 1 transforms scen.count points with one transformPoints call;   *)
(* caller 2 transforms the same points of its own copy of the data with   *)
(* one transformPoint call per point, in array order.                     *)

Scenarios ==
    {[src |-> s, dst |-> d, count |-> g.count, offset |-> g.offset,
      done |-> 0, failed |-> FALSE, single |-> sp, batch |-> bp] :
        s \in 1..MaxHandles, d \in 1..MaxHandles,
        g \in {g \in Geom : g.base = 1 /\ g.count >= 1 /\ g.offset >= 1},
        sp \in SinglePolicy, bp \in BatchPolicy}

InitBatch ==
    /\ pc = [t \in Threads |-> "idle"]
    /\ req = [t \in Threads |-> NoRequest]
    /\ ext = [t \in Threads |-> << >>]
    /\ out = [t \in Threads |-> 0]
    /\ ret = [t \in Threads |-> Void]
    /\ heap = [h \in 1..MaxHandles |-> "live"]
    /\ \E d \in Inputs : /\ mem = [t \in Threads |-> d]
                         /\ data = [t \in Threads |-> d]
    /\ dangling = [t \in Threads |-> FALSE]
    /\ scen \in Scenarios

BatchCall ==
    /\ req[1] = NoRequest
    /\ Call(1, Request("transformPoints", "", scen.src, scen.dst, scen.count,
                       scen.offset, Xaddr(1), Yaddr(1), Zaddr(1)))

\* the element of the next single call
NextElem == 1 + scen.offset * scen.done

SeqCall ==
    /\ scen.done < scen.count
    /\ Call(2, Request("transformPoint", "", scen.src, scen.dst, 0, 0,
                       Xaddr(NextElem), Yaddr(NextElem), Zaddr(NextElem)))

SeqTake ==
    /\ Take(2, FALSE, {})
    /\ scen' = [scen EXCEPT !.done = @ + 1,
                            !.failed = @ \/ ret[2] # 0]

NextBatch ==
    \/ BatchCall
    \/ SeqCall
    \/ LibReturn(1)
    \/ LibReturn(2)
    \/ SeqTake

SpecBatch == InitBatch /\ [][NextBatch]_vars

(* ============================== claims ================================ *)

\* thread t is back in its caller from a call of op
Returned(t, op) == pc[t] = "returned" /\ req[t].op = op

\* C1: each of transformPoints, transformSimplePoints, transformPoint and
\* transformSimplePoint returns exactly the status code the library's
\* pj_transform returned for that call: 0 stays 0, a non-zero code is
\* returned unmodified.
C1_StatusForwarded ==
    \A t \in Threads :
        (pc[t] = "returned" /\ req[t].op \in TransformOps)
            => /\ LastCall(t).fn = "pj_transform"
               /\ ret[t] = out[t]
               /\ ret[t] \in Status

\* a batch transform has returned the library's error number -14 unchanged
C1_Witness ==
    \E t \in Threads :
        /\ Returned(t, "transformPoints")
        /\ out[t] = -14
        /\ ret[t] = -14

\* C2: isLatLon returns TRUE exactly when pj_is_latlong returned a non-zero
\* value (any non-zero value) and FALSE exactly when it returned 0.
C2_StrictBoolean ==
    \A t \in Threads :
        Returned(t, "isLatLon")
            => /\ LastCall(t).fn = "pj_is_latlong"
               /\ LastCall(t).src = req[t].src
               /\ ret[t] \in BOOLEAN
               /\ (ret[t] = TRUE) <=> (out[t] # 0)

\* pj_is_latlong returned 2 for a live handle and isLatLon returned TRUE
C2_Witness ==
    \E t \in Threads :
        /\ Returned(t, "isLatLon")
        /\ req[t].src \in 1..MaxHandles
        /\ heap[req[t].src] = "live"
        /\ out[t] = 2
        /\ ret[t] = TRUE

\* C3: initProjection returns exactly what pj_init_plus returns for the
\* definition string it was given: a non-null handle for a definition the
\* library accepts, NULL for one it rejects; the failure is a returned value.
C3_InitForwarded ==
    \A t \in Threads :
        Returned(t, "initProjection")
            => /\ ext[t] = << ExtCall("pj_init_plus", req[t].wkt, NULL, NULL,
                                      0, 0, NULL, NULL, NULL) >>
               /\ ret[t] = out[t]
               /\ req[t].wkt \in LibAccepts
                    => (ret[t] \in 1..MaxHandles /\ heap[ret[t]] = "live")
               /\ req[t].wkt \notin LibAccepts => ret[t] = NULL
               /\ ~dangling[t]

\* an unparseable definition came back as NULL after an earlier definition
\* got the second handle
C3_Witness ==
    \E t \in Threads :
        /\ Returned(t, "initProjection")
        /\ req[t].wkt = "garbage"
        /\ ret[t] = NULL
        /\ heap[MaxHandles] = "live"

ZCells == {Zaddr(i) : i \in 1..MaxLen}

\* the address of z[i] for the address of x[i]
ZofX(x) == Zaddr(x - Xaddr(0))

\* C4: transformPoint(src, dst, x, y, z) is transformPoints with count 1 and
\* stride 0 on &x, &y, &z: it makes the external call that
\* transformPoints(src, dst, 1, 0, &x, &y, &z) makes, returns the status that
\* call returns and leaves in x, y, z what that call leaves; likewise
\* transformSimplePoint and transformSimplePoints(src, dst, 1, 0, &x, &y).
C4_PointIsBatchOfOne ==
    \A t \in Threads :
        /\ Returned(t, "transformPoint")
             => LET rq == req[t]
                    b == transformPoints(rq.src, rq.dst, 1, 0, rq.x, rq.y, rq.z)
                IN /\ ext[t] = b
                   /\ Outcome(out[t], mem[t]) \in LibOutcomes(b[1], data[t])
                   /\ ret[t] = transformPoints_ret(out[t])
        /\ Returned(t, "transformSimplePoint")
             => LET rq == req[t]
                    b == transformSimplePoints(rq.src, rq.dst, 1, 0, rq.x, rq.y)
                IN /\ ext[t] = b
                   /\ Outcome(out[t], mem[t]) \in LibOutcomes(b[1], data[t])
                   /\ ret[t] = transformSimplePoints_ret(out[t])

\* a single point was transformed between two different live projections:
\* status 0 and the projected value in x, y and z
C4_Witness ==
    \E t \in Threads :
        /\ Returned(t, "transformPoint")
        /\ req[t].src # req[t].dst
        /\ ~dangling[t]
        /\ ret[t] = 0
        /\ mem[t][req[t].x] = "proj"
        /\ mem[t][req[t].z] = "proj"

\* C6: transformSimplePoints and transformSimplePoint pass NULL as the third
\* axis (the z array is neither passed nor written), and make otherwise the
\* external call of transformPoints / transformPoint for the same src, dst,
\* count, stride, x and y: status and x/y results are those of the z-bearing
\* call (the library's result for x, y and the status does not depend on z).
C6_SimpleIsNullZ ==
    \A t \in Threads :
        /\ Returned(t, "transformSimplePoints")
             => LET rq == req[t]
                    c3 == transformPoints(rq.src, rq.dst, rq.count, rq.offset,
                                          rq.x, rq.y, ZofX(rq.x))[1]
                IN /\ ext[t] = << [c3 EXCEPT !.z = NULL] >>
                   /\ ret[t] = transformPoints_ret(out[t])
                   /\ \E o3 \in LibOutcomes(c3, data[t]) :
                        /\ o3.r = out[t]
                        /\ \A a \in Cells \ ZCells : o3.m[a] = mem[t][a]
                   /\ \A a \in ZCells : mem[t][a] = data[t][a]
        /\ Returned(t, "transformSimplePoint")
             => LET rq == req[t]
                    c3 == transformPoint(rq.src, rq.dst, rq.x, rq.y, ZofX(rq.x))[1]
                IN /\ ext[t] = << [c3 EXCEPT !.z = NULL] >>
                   /\ ret[t] = transformPoint_ret(out[t])
                   /\ \E o3 \in LibOutcomes(c3, data[t]) :
                        /\ o3.r = out[t]
                        /\ \A a \in Cells \ ZCells : o3.m[a] = mem[t][a]
                   /\ \A a \in ZCells : mem[t][a] = data[t][a]

\* two points were transformed without z: x and y projected, z as it was
C6_Witness ==
    \E t \in Threads :
        /\ Returned(t, "transformSimplePoints")
        /\ req[t].count = 2
        /\ ret[t] = 0
        /\ LastCall(t).z = NULL
        /\ mem[t][Xaddr(2)] = "proj"
        /\ mem[t][Yaddr(2)] = "proj"
        /\ mem[t][Zaddr(2)] = "in"

HandleRequests ==
    IsLatLonRequests \cup FreeProjectionRequests \cup TransformPointsRequests
    \cup TransformSimplePointsRequests \cup TransformPointRequests(1..MaxLen)
    \cup TransformSimplePointRequests

\* C8: the shim tracks no handle: whatever the state of a handle (live,
\* freed, never returned, NULL), a call with it is accepted and the library
\* is called once with that same handle value.
C8_NoValidityTracking ==
    \A t \in Threads :
        /\ (pc[t] \in {"inLib", "returned"} /\ req[t].op # "initProjection")
             => /\ Len(ext[t]) = 1
                /\ ext[t][1].src = req[t].src
                /\ ext[t][1].dst = req[t].dst
        /\ (t = 1 /\ pc[t] = "idle") => \A rq \in HandleRequests : ENABLED Call(t, rq)

\* a handle was freed twice: the second pj_free got the freed handle
C8_Witness ==
    \E t \in Threads :
        /\ Returned(t, "freeProjection")
        /\ req[t].src \in 1..MaxHandles
        /\ heap[req[t].src] = "freed"
        /\ LastCall(t).src = req[t].src
        /\ dangling[t]

\* the library function an exported function forwards to
LibFn(op) ==
    CASE op = "initProjection" -> "pj_init_plus"
      [] op = "isLatLon" -> "pj_is_latlong"
      [] op = "freeProjection" -> "pj_free"
      [] OTHER -> "pj_transform"

\* C10: a call of an exported function makes exactly one call of the
\* corresponding library function, before it returns, with the caller's
\* arguments in the same positions and unchanged (count 1 and stride 0 for
\* the single-point functions, NULL for the absent z); there is no second
\* call, whatever the status.
C10_OneCallArgsUnchanged ==
    \A t \in Threads :
        pc[t] \in {"inLib", "returned"}
            => LET c == ext[t][1]
                   rq == req[t]
                   single == rq.op \in {"transformPoint", "transformSimplePoint"}
               IN /\ Len(ext[t]) = 1
                  /\ c.fn = LibFn(rq.op)
                  /\ c.wkt = rq.wkt
                  /\ c.src = rq.src
                  /\ c.dst = rq.dst
                  /\ c.count = (IF single THEN 1 ELSE rq.count)
                  /\ c.offset = (IF single THEN 0 ELSE rq.offset)
                  /\ c.x = rq.x
                  /\ c.y = rq.y
                  /\ c.z = rq.z

\* a batch over the whole arrays between two different handles returned a
\* non-zero status after its one external call
C10_Witness ==
    \E t \in Threads :
        /\ Returned(t, "transformPoints")
        /\ Live(req[t].src) /\ Live(req[t].dst) /\ req[t].src # req[t].dst
        /\ req[t].count = MaxLen
        /\ out[t] = -14
        /\ Len(ext[t]) = 1

BatchDone == pc[1] = "returned"

SeqDone == scen.count > 0 /\ scen.done = scen.count

\* the elements of the arrays the scenario's points occupy
ScenCells ==
    UNION {{Xaddr(1 + scen.offset * i), Yaddr(1 + scen.offset * i),
            Zaddr(1 + scen.offset * i)} : i \in 0..(scen.count - 1)}

ConcRequests ==
    IsLatLonRequests \cup FreeProjectionRequests \cup TransformPointRequests({1})

\* C9: the shim takes no lock and arbitrates nothing: a thread that is about
\* to call an exported function can enter it, and the library, whatever the
\* other thread is doing, also with the same handle.
C9_NoSerialization ==
    \A t \in Threads :
        pc[t] = "idle" => \A rq \in ConcRequests : ENABLED Call(t, rq)

\* pj_free of a live handle and pj_transform with that handle are in
\* progress at the same time
C9_Witness ==
    \E t \in Threads, u \in Threads :
        /\ pc[t] = "inLib" /\ pc[u] = "inLib"
        /\ LastCall(t).fn = "pj_free"
        /\ LastCall(u).fn = "pj_transform"
        /\ LastCall(u).src = LastCall(t).src
        /\ Live(LastCall(t).src)

====
